---------------------------- MODULE Spec2Model ----------------------------
(***************************************************************************)
(* A model of ImageViewer.cpp (Phototonic): the zoom-fit size computation  *)
(* resizeImage(), the geometric stage transform(), the mirror compositor   *)
(* mirror(), the colour grading colorize() with rgbToHsl()/hslToRgb(), and *)
(* the pipeline drivers refresh() and loadImage()/reload().                *)
(*                                                                         *)
(* The model covers still images: animation is null and imageWidget is     *)
(* non-null, batchMode is off and newImage is false, which is the state    *)
(* after construction followed by loadImage() of a non-animated file.      *)
(***************************************************************************)
EXTENDS Integers, Sequences, FiniteSets, TLC

(***************************************************************************)
(* Bounds of the model.                                                    *)
(***************************************************************************)
\* channel values 0..HslLow and 255-HslLow..255 are sampled for R and B
HslLow == 4
\* largest image width and height
MaxImg == 3
\* most pixels of an image handed to mirror()
MaxArea == 2
\* largest viewport width and height
MaxView == 4
\* largest zoom multiplier, in halves (4 is a multiplier of 2.0)
MaxZoomH == 4
\* side of the large image and the multiplier, in halves, that zooms it past
\* the viewer by the margin of line 285
BigImg == 7
BigZoomH == 32

(***************************************************************************)
(* Arithmetic of the C++ source.                                           *)
(***************************************************************************)
\* C++ integer division and float-to-int conversion truncate toward zero.
TruncDiv(n, d) == IF n >= 0 THEN n \div d ELSE -((-n) \div d)

\* #define MAX / MIN
MAX(a, b) == IF a > b THEN a ELSE b
MIN(a, b) == IF a < b THEN a ELSE b

bound0To255_NoUpper(val) == IF val < 0 THEN 0 ELSE val

bound0To255(val) == IF val > 255 THEN 255 ELSE IF val < 0 THEN 0 ELSE val

\* ROUND(x) == (int)(x + 0.5) for the rational x = num/den, den > 0.
ROUND(num, den) == TruncDiv(2 * num + den, 2 * den)

(***************************************************************************)
(* rgbToHsl.  All doubles of the source are kept as exact rationals:       *)
(* l = (max+min)/2, s = 255*delta/den, h = n/(2*delta).                    *)
(*                                                                         *)
(* The hue is rounded by ROUND(h).  When h is exactly k + 1/2 the double   *)
(* the source computes, ((g-b)/delta [+2|+4]) * 42.5, is for some ratios   *)
(* one unit in the last place below k + 1/2, and ROUND gives k, not k+1.   *)
(* HueTieShort lists these ratios, as <<sector, 85*(x-y)/delta>>, sector   *)
(* 0, 1, 2 for max = r, g, b: they are the IEEE-754 double results of      *)
(* lines 488-496 for every (r,g,b) in 0..255.                              *)
(***************************************************************************)
HueTieShort ==
    { <<0, 49>>, <<0, 57>>,
      <<1, -71>>, <<1, -61>>, <<1, -51>>, <<1, 5>>, <<1, 15>>, <<1, 27>>,
      <<1, 47>>, <<1, 49>>, <<1, 69>>,
      <<2, 9>>, <<2, 31>>, <<2, 51>>, <<2, 53>>, <<2, 73>> }

rgbMax(r, g, b) == IF r > g THEN MAX(r, b) ELSE MAX(g, b)
rgbMin(r, g, b) == IF r > g THEN MIN(g, b) ELSE MIN(r, b)

hueSector(r, g, b) ==
    LET max == rgbMax(r, g, b)
    IN  IF r = max THEN 0 ELSE IF g = max THEN 1 ELSE 2

\* the numerator of (g-b), (b-r) or (r-g) over delta
hueDiff(r, g, b) ==
    LET sec == hueSector(r, g, b)
    IN  IF sec = 0 THEN g - b ELSE IF sec = 1 THEN b - r ELSE r - g

\* ROUND(h) of lines 488-504, h = n/(2*delta)
hueOf(r, g, b) ==
    LET delta == rgbMax(r, g, b) - rgbMin(r, g, b)
        sec   == hueSector(r, g, b)
        d     == hueDiff(r, g, b)
        n0    == 170 * delta * sec + 85 * d
        n     == IF n0 < 0 THEN n0 + 510 * delta
                 ELSE IF n0 > 510 * delta THEN n0 - 510 * delta
                 ELSE n0
        exact == ROUND(n, 2 * delta)
        tie   == (85 * d) % delta = 0 /\ ((85 * d) \div delta) % 2 = 1
    IN  IF tie /\ <<sec, (85 * d) \div delta>> \in HueTieShort
        THEN exact - 1
        ELSE exact

satOf(r, g, b) ==
    LET max   == rgbMax(r, g, b)
        min   == rgbMin(r, g, b)
        delta == max - min
        den   == IF max + min < 256 THEN max + min ELSE 511 - max - min
    IN  ROUND(255 * delta, den)

lightOf(r, g, b) == ROUND(rgbMax(r, g, b) + rgbMin(r, g, b), 2)

\* the three unsigned char results *hue, *sat, *light
rgbToHsl(r, g, b) ==
    IF rgbMax(r, g, b) = rgbMin(r, g, b)
    THEN [h |-> 0, s |-> 0, l |-> lightOf(r, g, b) % 256]
    ELSE [h |-> hueOf(r, g, b) % 256,
          s |-> satOf(r, g, b) % 256,
          l |-> lightOf(r, g, b) % 256]

(***************************************************************************)
(* hslValue and hslToRgb.  n1, n2 are carried as N1/65025 and N2/65025.    *)
(* The exact rational ROUND agrees with the double computation for every   *)
(* (h,s,l) in 0..255.                                                      *)
(***************************************************************************)
hslValue_NoFold(N1, N2, hue) ==
    LET V85 == IF 2 * hue < 85 THEN 85 * N1 + (N2 - N1) * 2 * hue
               ELSE IF 2 * hue < 255 THEN 85 * N2
               ELSE IF hue < 170 THEN 85 * N1 + (N2 - N1) * 2 * (170 - hue)
               ELSE 85 * N1
    IN  ROUND(V85, 85 * 255)

hslValue(N1, N2, hue0) ==
    LET hue == IF hue0 > 255 THEN hue0 - 255
               ELSE IF hue0 < 0 THEN hue0 + 255 ELSE hue0
        V85 == IF 2 * hue < 85 THEN 85 * N1 + (N2 - N1) * 2 * hue
               ELSE IF 2 * hue < 255 THEN 85 * N2
               ELSE IF hue < 170 THEN 85 * N1 + (N2 - N1) * 2 * (170 - hue)
               ELSE 85 * N1
    IN  ROUND(V85, 85 * 255)

\* the values ROUND(...) of lines 513-515 and 527-529, before their
\* conversion to unsigned char
hslToRgbRaw(h, s, l) ==
    IF s = 0
    THEN [r |-> l, g |-> l, b |-> l]
    ELSE LET M2 == IF l < 128 THEN l * (255 + s)
                   ELSE 255 * l + 255 * s - l * s
             M1 == 510 * l - M2
         IN  [r |-> hslValue(M1, M2, h + 85),
              g |-> hslValue(M1, M2, h),
              b |-> hslValue(M1, M2, h - 85)]

hslToRgb(h, s, l) ==
    [r |-> hslToRgbRaw(h, s, l).r % 256,
     g |-> hslToRgbRaw(h, s, l).g % 256,
     b |-> hslToRgbRaw(h, s, l).b % 256]

(***************************************************************************)
(* The lookup tables of colorize() (lines 553-569).                        *)
(*                                                                         *)
(* tan() is the C library's; TanMicro gives tan(contrastVal/100) in        *)
(* millionths for the contrast values the model draws.  With these values  *)
(* the table below equals the float table of the source entry by entry.    *)
(***************************************************************************)
ContrastVals == {0, 78, 100}

TanMicro(contrastVal) ==
    CASE contrastVal = 0   -> 0
      [] contrastVal = 78  -> 989261
      [] contrastVal = 100 -> 1557408

contrastUpper(contrastVal) ==
    TruncDiv(128 * 1000000 + 128 * TanMicro(contrastVal), 1000000)

contrastLower(contrastVal) ==
    TruncDiv(128 * 1000000 - 128 * TanMicro(contrastVal), 1000000)

contrastTransform_Linear(contrastVal, i) == i

contrastTransform(contrastVal, i) ==
    IF i < contrastUpper(contrastVal) /\ i > contrastLower(contrastVal)
    THEN TruncDiv((i - 128) * 1000000 + 128 * TanMicro(contrastVal),
                  TanMicro(contrastVal)) % 256
    ELSE IF i >= contrastUpper(contrastVal) THEN 255
    ELSE 0

\* pow(i/255, 1/brightness) is exact for the brightness values drawn:
\* 100 gives i/255, 50 gives (i/255)^2, 200 gives sqrt(i/255).
BrightVals == {50, 100, 200}

brightTransform(brightVal, i) ==
    CASE brightVal = 100 -> MIN(255, ROUND(i, 1))
      [] brightVal = 50  -> MIN(255, ROUND(i * i, 255))
      [] brightVal = 200 ->
            MIN(255, CHOOSE k \in 0..256 :
                        /\ (2 * k - 1) * (2 * k - 1) <= 1020 * i \/ k = 0
                        /\ (2 * k + 1) * (2 * k + 1) > 1020 * i)

(***************************************************************************)
(* colorize(), one pixel (lines 575-605).  S is the Settings record, p the *)
(* pixel [r, g, b, a] read from line[x].                                   *)
(***************************************************************************)
negateStage_None(p, S) == [r |-> p.r, g |-> p.g, b |-> p.b]

negateStage(p, S) ==
    [r |-> IF S.rNegateEnabled THEN bound0To255(255 - p.r) ELSE p.r,
     g |-> IF S.gNegateEnabled THEN bound0To255(255 - p.g) ELSE p.g,
     b |-> IF S.bNegateEnabled THEN bound0To255(255 - p.b) ELSE p.b]

gainStage(c, S) ==
    [r |-> bound0To255(TruncDiv(c.r * (S.redVal + 100), 100)),
     g |-> bound0To255(TruncDiv(c.g * (S.greenVal + 100), 100)),
     b |-> bound0To255(TruncDiv(c.b * (S.blueVal + 100), 100))]

brightStage(c, S) ==
    [r |-> bound0To255(brightTransform(S.brightVal, c.r)),
     g |-> bound0To255(brightTransform(S.brightVal, c.g)),
     b |-> bound0To255(brightTransform(S.brightVal, c.b))]

contrastStage(c, S) ==
    [r |-> bound0To255(contrastTransform(S.contrastVal, c.r)),
     g |-> bound0To255(contrastTransform(S.contrastVal, c.g)),
     b |-> bound0To255(contrastTransform(S.contrastVal, c.b))]

\* the (r, g, b) handed to rgbToHsl at line 591
preHsl(p, S) ==
    contrastStage(brightStage(gainStage(negateStage(p, S), S), S), S)

\* unsigned char h, s, l after lines 591-594
hslStage_NoSat(p, S) ==
    LET c   == preHsl(p, S)
        hsl == rgbToHsl(c.r, c.g, c.b)
    IN  [h |-> (IF S.colorizeEnabled THEN S.hueVal ELSE hsl.h + S.hueVal) % 256,
         s |-> hsl.s,
         l |-> bound0To255(TruncDiv(hsl.l * S.lightnessVal, 100))]

hslStage(p, S) ==
    LET c   == preHsl(p, S)
        hsl == rgbToHsl(c.r, c.g, c.b)
    IN  [h |-> (IF S.colorizeEnabled THEN S.hueVal ELSE hsl.h + S.hueVal) % 256,
         s |-> bound0To255(TruncDiv(hsl.s * S.saturationVal, 100)),
         l |-> bound0To255(TruncDiv(hsl.l * S.lightnessVal, 100))]

colorizePixel_KeepNegated(p, hasAlpha, S) ==
    LET hsl == hslStage(p, S)
        out == hslToRgb(hsl.h, hsl.s, hsl.l)
        neg == negateStage(p, S)
    IN  [r |-> IF S.hueRedChannel THEN out.r ELSE neg.r,
         g |-> IF S.hueGreenChannel THEN out.g ELSE neg.g,
         b |-> IF S.hueBlueChannel THEN out.b ELSE neg.b,
         a |-> IF hasAlpha THEN p.a ELSE 255]

colorizePixel(p, hasAlpha, S) ==
    LET hsl == hslStage(p, S)
        out == hslToRgb(hsl.h, hsl.s, hsl.l)
    IN  [r |-> IF S.hueRedChannel THEN out.r ELSE p.r,
         g |-> IF S.hueGreenChannel THEN out.g ELSE p.g,
         b |-> IF S.hueBlueChannel THEN out.b ELSE p.b,
         a |-> IF hasAlpha THEN p.a ELSE 255]

(***************************************************************************)
(* Images.  A QImage is [w, h, fmt, px]; px maps <<x, y>>, 0 <= x < w and  *)
(* 0 <= y < h, to a pixel [r, g, b, a], the value QImage::pixel returns.   *)
(* The formats modelled are RGB32 and RGB888 (no alpha channel, alpha      *)
(* 255), ARGB32 and RGBA8888.                                              *)
(***************************************************************************)
Pos(w, h) == (0..(w - 1)) \X (0..(h - 1))

NullImage == [w |-> 0, h |-> 0, fmt |-> "Invalid", px |-> <<>>]

\* QImage::hasAlphaChannel
hasAlphaChannel(img) == img.fmt \in {"ARGB32", "RGBA8888"}

\* the formats colorize() works on in place (lines 544-547)
DirectFormats == {"RGB32", "ARGB32"}

\* QImage::convertToFormat(QImage::Format_RGB32): the colours are kept and
\* every alpha byte becomes 255
convertToRGB32(img) ==
    [img EXCEPT !.fmt = "RGB32",
                !.px = [q \in Pos(img.w, img.h) |->
                          [img.px[q] EXCEPT !.a = 255]]]

\* the pixel QImage::copy writes outside the source ("pixels are set to 0")
ZeroPixel == [r |-> 0, g |-> 0, b |-> 0, a |-> 0]

\* QImage::mirrored(horizontal, vertical)
mirrored(img, horizontal, vertical) ==
    [img EXCEPT !.px =
        [q \in Pos(img.w, img.h) |->
            img.px[<<IF horizontal THEN img.w - 1 - q[1] ELSE q[1],
                     IF vertical THEN img.h - 1 - q[2] ELSE q[2]>>]]]

\* QImage::transformed by a rotation of 0, 90, 180 or 270 degrees clockwise
rotated(img, degrees) ==
    CASE degrees = 0   -> img
      [] degrees = 90  ->
            [w |-> img.h, h |-> img.w, fmt |-> img.fmt,
             px |-> [q \in Pos(img.h, img.w) |->
                        img.px[<<q[2], img.h - 1 - q[1]>>]]]
      [] degrees = 180 -> mirrored(img, TRUE, TRUE)
      [] degrees = 270 ->
            [w |-> img.h, h |-> img.w, fmt |-> img.fmt,
             px |-> [q \in Pos(img.h, img.w) |->
                        img.px[<<img.w - 1 - q[2], q[1]>>]]]

\* QImage::copy(x, y, w, h): a null image when w or h is not positive,
\* pixels outside the source are 0 (read as opaque black without an alpha
\* channel)
copy(img, x, y, w, h) ==
    IF w <= 0 \/ h <= 0 \/ img.w = 0
    THEN NullImage
    ELSE [w |-> w, h |-> h, fmt |-> img.fmt,
          px |-> [q \in Pos(w, h) |->
                    IF /\ x + q[1] >= 0 /\ x + q[1] < img.w
                       /\ y + q[2] >= 0 /\ y + q[2] < img.h
                    THEN img.px[<<x + q[1], y + q[2]>>]
                    ELSE IF hasAlphaChannel(img) THEN ZeroPixel
                    ELSE [ZeroPixel EXCEPT !.a = 255]]]

(***************************************************************************)
(* transform() (lines 348-387) applied to the working image img.           *)
(***************************************************************************)
cropped_AbsOnly(img, S) ==
    IF S.cropLeft # 0 \/ S.cropTop # 0 \/ S.cropWidth # 0 \/ S.cropHeight # 0
    THEN copy(img, S.cropLeft, S.cropTop,
              img.w - S.cropLeft - S.cropWidth,
              img.h - S.cropTop - S.cropHeight)
    ELSE copy(img, TruncDiv(img.w * S.cropLeftPercent, 100),
              TruncDiv(img.h * S.cropTopPercent, 100),
              img.w - TruncDiv(img.w * S.cropLeftPercent, 100)
                    - TruncDiv(img.w * S.cropWidthPercent, 100),
              img.h - TruncDiv(img.h * S.cropTopPercent, 100)
                    - TruncDiv(img.h * S.cropHeightPercent, 100))

cropped(img, S) ==
    LET croppingOn == \/ S.cropLeftPercent # 0 \/ S.cropTopPercent # 0
                      \/ S.cropWidthPercent # 0 \/ S.cropHeightPercent # 0
        lpp == IF croppingOn THEN TruncDiv(img.w * S.cropLeftPercent, 100) ELSE 0
        tpp == IF croppingOn THEN TruncDiv(img.h * S.cropTopPercent, 100) ELSE 0
        wpp == IF croppingOn THEN TruncDiv(img.w * S.cropWidthPercent, 100) ELSE 0
        hpp == IF croppingOn THEN TruncDiv(img.h * S.cropHeightPercent, 100) ELSE 0
    IN  IF S.cropLeft # 0 \/ S.cropTop # 0 \/ S.cropWidth # 0 \/ S.cropHeight # 0
        THEN copy(img, S.cropLeft + lpp, S.cropTop + tpp,
                  img.w - S.cropLeft - S.cropWidth - lpp - wpp,
                  img.h - S.cropTop - S.cropHeight - tpp - hpp)
        ELSE IF croppingOn
        THEN copy(img, lpp, tpp, img.w - lpp - wpp, img.h - tpp - hpp)
        ELSE img

transform_FlipAlways(img, S) ==
    cropped(mirrored(rotated(img, S.rotation), TRUE, S.flipV), S)

transform(img, S) ==
    LET rot  == IF S.rotation # 0 THEN rotated(img, S.rotation) ELSE img
        flip == IF S.flipH \/ S.flipV THEN mirrored(rot, S.flipH, S.flipV)
                ELSE rot
    IN  cropped(flip, S)

(***************************************************************************)
(* colorize() (lines 533-608) applied to the working image.  hasAlpha is   *)
(* read at line 541, before line 549 converts an image of any other format *)
(* than the direct ones to RGB32.                                          *)
(***************************************************************************)
colorize(img, S) ==
    IF img.w = 0 THEN img
    ELSE LET hasAlpha == hasAlphaChannel(img)
             work == IF img.fmt \in DirectFormats THEN img
                     ELSE convertToRGB32(img)
         IN  [work EXCEPT !.px =
                [q \in Pos(work.w, work.h) |->
                    colorizePixel(work.px[q], hasAlpha, S)]]

(***************************************************************************)
(* mirror() (lines 389-433).  QImage(w, h, Format_ARGB32) leaves the       *)
(* canvas uninitialised: junk is the content the memory happens to hold.   *)
(* QPainter::drawImage composes source-over: an opaque source pixel        *)
(* replaces the canvas pixel, a fully transparent one leaves it.  The      *)
(* model draws alpha from {0, 255}.                                        *)
(***************************************************************************)
sourceOver(src, dst) == IF src.a = 255 THEN src ELSE dst

\* the tile image painted at canvas cell (cx, cy), cells being w x h
mirrorTile(img, layout, cx, cy) ==
    CASE layout = "LayDual"   -> mirrored(img, cx = 1, FALSE)
      [] layout = "LayTriple" -> mirrored(img, cx = 1, FALSE)
      [] layout = "LayQuad"   -> mirrored(img, cx = 1, cy = 1)
      [] layout = "LayVDual"  -> mirrored(img, FALSE, cy = 1)

mirrorCols(layout) ==
    CASE layout = "LayDual" -> 2 [] layout = "LayTriple" -> 3
      [] layout = "LayQuad" -> 2 [] layout = "LayVDual" -> 1

mirrorRows(layout) ==
    CASE layout = "LayDual" -> 1 [] layout = "LayTriple" -> 1
      [] layout = "LayQuad" -> 2 [] layout = "LayVDual" -> 2

\* the source pixel QPainter::drawImage paints at canvas position q
mirrorSource(img, layout, q) ==
    mirrorTile(img, layout, q[1] \div img.w, q[2] \div img.h)
        .px[<<q[1] % img.w, q[2] % img.h>>]

\* canvas positions no drawImage call writes: their content stays what the
\* uninitialised canvas held
mirrorUnpainted(img, layout) ==
    { q \in Pos(img.w * mirrorCols(layout), img.h * mirrorRows(layout)) :
        mirrorSource(img, layout, q).a # 255 }

mirror(img, layout, junk) ==
    IF img.w = 0 THEN NullImage
    ELSE LET cw == img.w * mirrorCols(layout)
             ch == img.h * mirrorRows(layout)
         IN  [w |-> cw, h |-> ch, fmt |-> "ARGB32",
              px |-> [q \in Pos(cw, ch) |->
                        sourceOver(mirrorSource(img, layout, q),
                                   IF q \in DOMAIN junk THEN junk[q]
                                   ELSE ZeroPixel)]]

(***************************************************************************)
(* The zoom-fit computation of resizeImage() (lines 138-152, 179-279).     *)
(* Settings::imageZoomFactor is a float; the model draws multiples of one  *)
(* half, held doubled in imageZoomFactorX2, for which size * factor is     *)
(* exact in float arithmetic.                                              *)
(***************************************************************************)
Policies == {"Disable", "WidthAndHeight", "Width", "Height", "Disprop"}

\* QSize::scale(w, h, Qt::KeepAspectRatio)
scaleKeep(sz, w, h) ==
    IF sz.w = 0 \/ sz.h = 0
    THEN [w |-> w, h |-> h]
    ELSE LET rw == TruncDiv(h * sz.w, sz.h)
         IN  IF rw <= w THEN [w |-> rw, h |-> h]
             ELSE [w |-> w, h |-> TruncDiv(w * sz.h, sz.w)]

scaleIgnore_Keep(sz, w, h) == scaleKeep(sz, w, h)

\* QSize::scale(w, h, Qt::IgnoreAspectRatio)
scaleIgnore(sz, w, h) == [w |-> w, h |-> h]

calcZoom(size, S) == TruncDiv(size * S.imageZoomFactorX2, 2)

\* <<imgWidth, imgHeight, newWidth>> for which the float quotient
\* imgHeight / ((float) imgWidth / (float) newWidth) is just below the exact
\* integer quotient and converts to one less (all cases with imgWidth,
\* imgHeight <= 20 and newWidth <= 6)
FloatShort == { <<3, 9, 5>>, <<3, 15, 5>>, <<3, 18, 5>>, <<6, 18, 5>> }

getHeightByWidth(imgWidth, imgHeight, newWidth) ==
    IF newWidth = 0 THEN 0
    ELSE TruncDiv(imgHeight * newWidth, imgWidth)
         - (IF <<imgWidth, imgHeight, newWidth>> \in FloatShort THEN 1 ELSE 0)

getWidthByHeight(imgHeight, imgWidth, newHeight) ==
    IF newHeight = 0 THEN 0
    ELSE TruncDiv(imgWidth * newHeight, imgHeight)
         - (IF <<imgHeight, imgWidth, newHeight>> \in FloatShort THEN 1 ELSE 0)

\* the switch on Settings::zoomInFlags (lines 182-229)
zoomInSize(sz, v, S) ==
    CASE S.zoomInFlags = "Disable" ->
            IF sz.w <= v.w /\ sz.h <= v.h
            THEN scaleKeep(sz, calcZoom(sz.w, S), calcZoom(sz.h, S))
            ELSE sz
      [] S.zoomInFlags = "WidthAndHeight" ->
            IF sz.w <= v.w /\ sz.h <= v.h
            THEN scaleKeep(sz, calcZoom(v.w, S), calcZoom(v.h, S))
            ELSE sz
      [] S.zoomInFlags = "Width" ->
            IF sz.w <= v.w
            THEN scaleKeep(sz, calcZoom(v.w, S),
                           calcZoom(getHeightByWidth(sz.w, sz.h, v.w), S))
            ELSE sz
      [] S.zoomInFlags = "Height" ->
            IF sz.h <= v.h
            THEN scaleKeep(sz, calcZoom(getWidthByHeight(sz.h, sz.w, v.h), S),
                           calcZoom(v.h, S))
            ELSE sz
      [] S.zoomInFlags = "Disprop" ->
            LET newWidth  == IF sz.w <= v.w THEN v.w ELSE sz.w
                newHeight == IF sz.h <= v.h THEN v.h ELSE sz.h
            IN  scaleIgnore(sz, calcZoom(newWidth, S), calcZoom(newHeight, S))

\* the switch on Settings::zoomOutFlags (lines 231-278)
zoomOutSize(sz, v, S) ==
    CASE S.zoomOutFlags = "Disable" ->
            IF sz.w >= v.w \/ sz.h >= v.h
            THEN scaleKeep(sz, calcZoom(sz.w, S), calcZoom(sz.h, S))
            ELSE sz
      [] S.zoomOutFlags = "WidthAndHeight" ->
            IF sz.w >= v.w \/ sz.h >= v.h
            THEN scaleKeep(sz, calcZoom(v.w, S), calcZoom(v.h, S))
            ELSE sz
      [] S.zoomOutFlags = "Width" ->
            IF sz.w >= v.w
            THEN scaleKeep(sz, calcZoom(v.w, S),
                           calcZoom(getHeightByWidth(sz.w, sz.h, v.w), S))
            ELSE sz
      [] S.zoomOutFlags = "Height" ->
            IF sz.h >= v.h
            THEN scaleKeep(sz, calcZoom(getWidthByHeight(sz.h, sz.w, v.h), S),
                           calcZoom(v.h, S))
            ELSE sz
      [] S.zoomOutFlags = "Disprop" ->
            LET newWidth  == IF sz.w >= v.w THEN v.w ELSE sz.w
                newHeight == IF sz.h >= v.h THEN v.h ELSE sz.h
            IN  scaleIgnore(sz, calcZoom(newWidth, S), calcZoom(newHeight, S))

fitSize_AlwaysZoom(sz, v, S, disableResize) ==
    zoomOutSize(zoomInSize(sz, v, S), v, S)

\* the imageSize handed to setFixedSize (lines 179-279)
fitSize(sz, v, S, disableResize) ==
    IF disableResize
    THEN scaleKeep(sz, sz.w, sz.h)
    ELSE zoomOutSize(zoomInSize(sz, v, S), v, S)

(***************************************************************************)
(* The scroll area.  The viewport is the whole viewer (no margins, frame   *)
(* or scroll bars), so a scroll bar's maximum is the part of the widget    *)
(* that does not fit, and a widget smaller than the viewport is centred.   *)
(***************************************************************************)
\* the constant of line 285
CenterMargin == 100

barMax(widgetLen, viewLen) == MAX(0, widgetLen - viewLen)

barClamp(val, widgetLen, viewLen) ==
    MAX(0, MIN(val, barMax(widgetLen, viewLen)))

\* one coordinate of scrollArea->widget()->pos()
widgetPos(widgetLen, viewLen, bar) ==
    IF widgetLen <= viewLen THEN TruncDiv(viewLen - widgetLen, 2) ELSE -bar

\* one axis of QScrollArea::ensureVisible(x, y, xmargin, ymargin), as
\* centerImage() calls it (lines 304-306)
ensureVisible(bar, at, margin, widgetLen, viewLen) ==
    IF at - margin < bar
    THEN barClamp(MAX(0, at - margin), widgetLen, viewLen)
    ELSE IF at > bar + viewLen - margin
    THEN barClamp(MIN(at - viewLen + margin, barMax(widgetLen, viewLen)),
                  widgetLen, viewLen)
    ELSE bar

centerImage(bar, widgetLen, viewLen) ==
    ensureVisible(bar, TruncDiv(widgetLen, 2), TruncDiv(viewLen, 2),
                  widgetLen, viewLen)

\* lines 176-177 and 288-289: the bar goes back to the same fraction of its
\* new maximum; pos is <<value, maximum>> read before the resize
restoreBar(pos, widgetLen, viewLen) ==
    IF pos[1] > 0
    THEN barClamp(TruncDiv(barMax(widgetLen, viewLen) * pos[1], pos[2]),
                  widgetLen, viewLen)
    ELSE 0

(***************************************************************************)
(* State.                                                                  *)
(***************************************************************************)
VARIABLES
    Settings,           \* the Settings:: values the viewer reads
    mirrorLayout,       \* ImageViewer::mirrorLayout
    tempDisableResize,  \* ImageViewer::tempDisableResize
    origImage,          \* ImageViewer::origImage
    viewerImage,        \* ImageViewer::viewerImage, the working image
    mirrorImage,        \* ImageViewer::mirrorImage
    widgetImage,        \* the image imageWidget shows (imageWidget->setImage)
    view,               \* this->size(), the viewport
    display,            \* the fixed size of scrollArea->widget()
    hbar, vbar,         \* values of the scroll bars
    busy,               \* the static busy of resizeImage()
    pc,                 \* where the resizeImage() call in progress stands
    frame,              \* the locals of that call
    nested,             \* a call began while that call was in progress
    maxActive,          \* most resizeImage() bodies past the guard at once
    stages,             \* stages run by the last pipeline run, in order
    hslRun              \* a round trip through rgbToHsl and hslToRgb

vars == <<Settings, mirrorLayout, tempDisableResize, origImage, viewerImage,
          mirrorImage, widgetImage, view, display, hbar, vbar, busy, pc,
          frame, nested, maxActive, stages, hslRun>>

imageVars == <<origImage, viewerImage, mirrorImage, widgetImage>>
resizeVars == <<view, display, hbar, vbar, busy, pc, frame, nested, maxActive>>

\* the constructor (lines 68-136); values it does not set are the defaults
\* of an unedited image
DefaultSettings ==
    [cropLeft |-> 0, cropTop |-> 0, cropWidth |-> 0, cropHeight |-> 0,
     cropLeftPercent |-> 0, cropTopPercent |-> 0,
     cropWidthPercent |-> 0, cropHeightPercent |-> 0,
     rotation |-> 0, flipH |-> FALSE, flipV |-> FALSE,
     hueVal |-> 0, saturationVal |-> 100, lightnessVal |-> 100,
     hueRedChannel |-> TRUE, hueGreenChannel |-> TRUE, hueBlueChannel |-> TRUE,
     contrastVal |-> 78, brightVal |-> 100,
     colorizeEnabled |-> FALSE,
     rNegateEnabled |-> FALSE, gNegateEnabled |-> FALSE, bNegateEnabled |-> FALSE,
     redVal |-> 0, greenVal |-> 0, blueVal |-> 0,
     colorsActive |-> FALSE, keepTransform |-> FALSE, keepZoomFactor |-> FALSE,
     zoomInFlags |-> "Disable", zoomOutFlags |-> "WidthAndHeight",
     imageZoomFactorX2 |-> 2]

NoFrame == [size |-> [w |-> 0, h |-> 0], posNull |-> TRUE,
            positionX |-> <<0, 0>>, positionY |-> <<0, 0>>]

NoHsl == [pc |-> "off", rgb |-> <<0, 0, 0>>, hsl |-> <<0, 0, 0>>,
          out |-> <<0, 0, 0>>]

(***************************************************************************)
(* rgbToHsl followed by hslToRgb on one colour.                            *)
(***************************************************************************)
\* sampled values of the red and blue channels; green takes every value
HslSamples == (0..HslLow) \cup ((255 - HslLow)..255) \cup {128, 167, 249}

InitHsl ==
    /\ Settings = DefaultSettings
    /\ mirrorLayout = "LayNone"
    /\ tempDisableResize = FALSE
    /\ origImage = NullImage
    /\ viewerImage = NullImage
    /\ mirrorImage = NullImage
    /\ widgetImage = NullImage
    /\ view = [w |-> 1, h |-> 1]
    /\ display = [w |-> 0, h |-> 0]
    /\ hbar = 0
    /\ vbar = 0
    /\ busy = FALSE
    /\ pc = "idle"
    /\ frame = NoFrame
    /\ nested = FALSE
    /\ maxActive = 0
    /\ stages = <<>>
    /\ \E r \in HslSamples, g \in 0..255, b \in HslSamples :
          hslRun = [pc |-> "rgb", rgb |-> <<r, g, b>>, hsl |-> <<0, 0, 0>>,
                    out |-> <<0, 0, 0>>]

ToHsl ==
    /\ hslRun.pc = "rgb"
    /\ LET c == rgbToHsl(hslRun.rgb[1], hslRun.rgb[2], hslRun.rgb[3])
       IN  hslRun' = [hslRun EXCEPT !.pc = "hsl", !.hsl = <<c.h, c.s, c.l>>]
    /\ UNCHANGED <<Settings, mirrorLayout, tempDisableResize, imageVars,
                   resizeVars, stages>>

ToRgb ==
    /\ hslRun.pc = "hsl"
    /\ LET c == hslToRgb(hslRun.hsl[1], hslRun.hsl[2], hslRun.hsl[3])
       IN  hslRun' = [hslRun EXCEPT !.pc = "done", !.out = <<c.r, c.g, c.b>>]
    /\ UNCHANGED <<Settings, mirrorLayout, tempDisableResize, imageVars,
                   resizeVars, stages>>

NextHsl == ToHsl \/ ToRgb

SpecHsl == InitHsl /\ [][NextHsl]_vars

Abs(x) == IF x < 0 THEN -x ELSE x

\* the largest difference of a channel between input and round-trip output
HslDeviation ==
    MAX(Abs(hslRun.out[1] - hslRun.rgb[1]),
        MAX(Abs(hslRun.out[2] - hslRun.rgb[2]),
            Abs(hslRun.out[3] - hslRun.rgb[3])))

\* C1 as stated: hslToRgb(rgbToHsl(r,g,b)) is within 1 of (r,g,b) in each
\* channel, for every 8-bit (r,g,b).
C1_RoundTripWithin1 == hslRun.pc = "done" => HslDeviation <= 1

\* C1 amended: hslToRgb(rgbToHsl(r,g,b)) is within 4 of (r,g,b) in each
\* channel, for every 8-bit (r,g,b).
C1_RoundTripWithin4 == hslRun.pc = "done" => HslDeviation <= 4

\* a round trip has completed on a saturated colour and is off by exactly 4
C1_Witness ==
    /\ hslRun.pc = "done"
    /\ hslRun.rgb = <<0, 167, 249>>
    /\ HslDeviation = 4

(***************************************************************************)
(* colorize() on its own: the working image is a copy of the original (as  *)
(* at line 736) and one call grades it.                                    *)
(***************************************************************************)
\* most grading controls moved away from their defaults at once
MaxEdits == 2

ColorEdits ==
    { <<"rNegateEnabled", TRUE>>, <<"gNegateEnabled", TRUE>>,
      <<"bNegateEnabled", TRUE>>,
      <<"redVal", 100>>, <<"redVal", -50>>, <<"greenVal", 50>>,
      <<"blueVal", -100>>,
      <<"brightVal", 50>>, <<"brightVal", 200>>,
      <<"contrastVal", 0>>, <<"contrastVal", 100>>,
      <<"hueVal", 100>>, <<"hueVal", -30>>,
      <<"saturationVal", 0>>, <<"saturationVal", 150>>,
      <<"lightnessVal", 50>>, <<"lightnessVal", 150>>,
      <<"colorizeEnabled", TRUE>>,
      <<"hueRedChannel", FALSE>>, <<"hueGreenChannel", FALSE>>,
      <<"hueBlueChannel", FALSE>> }

\* DefaultSettings with the edits of E applied (one edit per control)
Edited(E) ==
    [f \in DOMAIN DefaultSettings |->
        IF \E e \in E : e[1] = f
        THEN (CHOOSE e \in E : e[1] = f)[2]
        ELSE DefaultSettings[f]]

EditSets(edits, n) ==
    { E \in SUBSET edits :
        /\ Cardinality(E) <= n
        /\ \A e1, e2 \in E : e1[1] = e2[1] => e1 = e2 }

ColorSettings == { Edited(E) : E \in EditSets(ColorEdits, MaxEdits) }

ColorRgb ==
    { <<255, 0, 0>>, <<255, 255, 255>>, <<0, 0, 0>>, <<100, 100, 100>>,
      <<0, 167, 249>>, <<0, 0, 255>>, <<10, 200, 90>>, <<130, 140, 150>>,
      <<200, 130, 20>> }

Pixel(c, a) == [r |-> c[1], g |-> c[2], b |-> c[3], a |-> a]

Uniform(w, h, fmt, p) ==
    [w |-> w, h |-> h, fmt |-> fmt, px |-> [q \in Pos(w, h) |-> p]]

\* 1x1 images of every colour, 2x2 images of one colour, and 2x1 images
\* whose second pixel is a fixed other colour; the 1x1 images also come in
\* two formats that colorize() converts
ColorImages ==
    LET fmtPixels ==
            { <<"RGB32", Pixel(c, 255)>> : c \in ColorRgb }
            \cup { <<"ARGB32", Pixel(c, a)>> : c \in ColorRgb, a \in {255, 77} }
        converted ==
            { <<"RGB888", Pixel(c, 255)>> : c \in ColorRgb }
            \cup { <<"RGBA8888", Pixel(c, 77)>> : c \in ColorRgb }
    IN  { Uniform(1, 1, fp[1], fp[2]) : fp \in fmtPixels \cup converted }
        \cup { Uniform(2, 2, "RGB32", Pixel(c, 255)) : c \in ColorRgb }
        \cup { [w |-> 2, h |-> 1, fmt |-> fp[1],
                px |-> [q \in Pos(2, 1) |->
                          IF q[1] = 0 THEN fp[2]
                          ELSE Pixel(<<10, 200, 90>>, 255)]] :
               fp \in fmtPixels }

InitColorize ==
    /\ Settings \in ColorSettings
    /\ mirrorLayout = "LayNone"
    /\ tempDisableResize = FALSE
    /\ origImage \in ColorImages
    /\ viewerImage = origImage
    /\ mirrorImage = NullImage
    /\ widgetImage = NullImage
    /\ view = [w |-> 1, h |-> 1]
    /\ display = [w |-> 0, h |-> 0]
    /\ hbar = 0
    /\ vbar = 0
    /\ busy = FALSE
    /\ pc = "idle"
    /\ frame = NoFrame
    /\ nested = FALSE
    /\ maxActive = 0
    /\ stages = <<>>
    /\ hslRun = NoHsl

\* ImageViewer::colorize()
Colorize ==
    /\ stages = <<>>
    /\ viewerImage' = colorize(viewerImage, Settings)
    /\ stages' = <<"colorize">>
    /\ UNCHANGED <<Settings, mirrorLayout, tempDisableResize, origImage,
                   mirrorImage, widgetImage, resizeVars, hslRun>>

\* the working image is set back to the original (line 619 or 736)
Reset ==
    /\ stages \in {<<"transform">>, <<"colorize">>, <<"mirror">>}
    /\ viewerImage' = origImage
    /\ stages' = <<>>
    /\ UNCHANGED <<Settings, mirrorLayout, tempDisableResize, origImage,
                   mirrorImage, widgetImage, resizeVars, hslRun>>

NextColorize == Colorize \/ Reset

SpecColorize == InitColorize /\ [][NextColorize]_vars

Graded == stages = <<"colorize">>

NoNegate ==
    /\ ~Settings.rNegateEnabled /\ ~Settings.gNegateEnabled
    /\ ~Settings.bNegateEnabled

NoGain == Settings.redVal = 0 /\ Settings.greenVal = 0 /\ Settings.blueVal = 0

AllChannels ==
    /\ Settings.hueRedChannel /\ Settings.hueGreenChannel
    /\ Settings.hueBlueChannel

HslIdentity ==
    /\ Settings.hueVal = 0 /\ Settings.saturationVal = 100
    /\ Settings.lightnessVal = 100 /\ ~Settings.colorizeEnabled

\* the settings C2 names
C2_Settings ==
    /\ HslIdentity /\ AllChannels /\ NoNegate /\ NoGain
    /\ Settings.brightVal = 100 /\ Settings.contrastVal = 0

\* C2 as stated: with saturation 100, lightness 100, hue 0, colorize off, all
\* channels on, no negate, gains 0, brightness 100 and contrast 0, colorize()
\* leaves every pixel of every image unchanged.
C2_Identity == (Graded /\ C2_Settings) => viewerImage = origImage

Threshold(v) == IF v >= 128 THEN 255 ELSE 0

\* C2 amended: with those settings colorize() keeps the size, keeps every
\* alpha value of an RGB32 or ARGB32 image and sets alpha to 255 in an image
\* of a format it converts, and each of r, g, b comes out within 3 of 255
\* when it was 128 or more and within 3 of 0 otherwise (contrast 0 is a
\* threshold at 128, and the HSL round trip that follows moves a channel by
\* up to 3).
C2_Thresholds ==
    (Graded /\ C2_Settings) =>
        /\ viewerImage.w = origImage.w /\ viewerImage.h = origImage.h
        /\ \A q \in Pos(origImage.w, origImage.h) :
            LET in  == origImage.px[q]
                out == viewerImage.px[q]
            IN  /\ out.a = IF origImage.fmt \in DirectFormats THEN in.a
                            ELSE 255
                /\ Abs(out.r - Threshold(in.r)) <= 3
                /\ Abs(out.g - Threshold(in.g)) <= 3
                /\ Abs(out.b - Threshold(in.b)) <= 3

\* colorize() ran with the settings of C2 on a pixel with channels on both
\* sides of 128, and the result is 3 away from the thresholded red
C2_Witness ==
    /\ Graded /\ C2_Settings
    /\ origImage.w = 2
    /\ origImage.px[<<0, 0>>] = Pixel(<<200, 130, 20>>, 77)
    /\ viewerImage.px[<<0, 0>>] = Pixel(<<252, 255, 1>>, 77)
    /\ origImage.px[<<1, 0>>] = Pixel(<<10, 200, 90>>, 255)
    /\ viewerImage.px[<<1, 0>>] = Pixel(<<1, 255, 1>>, 255)

\* the settings C7 names; contrast is at the constructor's 78 or at 0
C7_Settings ==
    /\ Settings.rNegateEnabled
    /\ ~Settings.gNegateEnabled /\ ~Settings.bNegateEnabled
    /\ NoGain /\ Settings.brightVal = 100
    /\ Settings.contrastVal \in {0, 78}
    /\ HslIdentity /\ AllChannels

Red == Pixel(<<255, 0, 0>>, 255)
Black == Pixel(<<0, 0, 0>>, 255)
White == Pixel(<<255, 255, 255>>, 255)

\* C7: an image of (255,0,0,255) pixels graded with negate-R on and all else
\* at identity comes out all (0,0,0,255): the negate step gives (0,0,0) and
\* no later step changes it.
C7_NegateRed ==
    (/\ Graded /\ C7_Settings
     /\ \A q \in Pos(origImage.w, origImage.h) : origImage.px[q] = Red)
    => /\ negateStage(Red, Settings) = [r |-> 0, g |-> 0, b |-> 0]
       /\ viewerImage.w = origImage.w /\ viewerImage.h = origImage.h
       /\ \A q \in Pos(origImage.w, origImage.h) : viewerImage.px[q] = Black

\* the 2x2 red image has been graded with negate-R and is black
C7_Witness ==
    /\ Graded /\ C7_Settings
    /\ origImage = Uniform(2, 2, "RGB32", Red)
    /\ viewerImage = Uniform(2, 2, "RGB32", Black)

\* C8: with saturation 0 and all channels enabled every pixel comes out with
\* red = green = blue = the lightness of the pixel handed to the HSL stage,
\* scaled by the lightness setting; a white pixel with hue 0, saturation 0,
\* lightness 100 converts to s = 0, l = 255 and comes out white.
C8_Achromatic ==
    (Graded /\ Settings.saturationVal = 0 /\ AllChannels) =>
        \A q \in Pos(origImage.w, origImage.h) :
            LET in  == origImage.px[q]
                out == viewerImage.px[q]
                c   == preHsl(in, Settings)
                L   == ROUND(rgbMax(c.r, c.g, c.b) + rgbMin(c.r, c.g, c.b), 2)
                v   == bound0To255(TruncDiv(L * Settings.lightnessVal, 100))
            IN  /\ out.r = v /\ out.g = v /\ out.b = v
                /\ (/\ in = White
                    /\ Settings.hueVal = 0 /\ Settings.lightnessVal = 100
                    /\ NoNegate /\ NoGain /\ Settings.contrastVal \in {0, 78})
                   => /\ rgbToHsl(c.r, c.g, c.b).s = 0
                      /\ rgbToHsl(c.r, c.g, c.b).l = 255
                      /\ out = White

\* saturation 0 has been applied to a white pixel, which stays white, next
\* to a green pixel, which comes out grey
C8_Witness ==
    /\ Graded /\ Settings.saturationVal = 0 /\ AllChannels
    /\ Settings.hueVal = 0 /\ Settings.lightnessVal = 100
    /\ origImage.w = 2
    /\ origImage.px[<<0, 0>>] = White
    /\ viewerImage.px[<<0, 0>>] = White
    /\ origImage.px[<<1, 0>>] = Pixel(<<10, 200, 90>>, 255)
    /\ viewerImage.px[<<1, 0>>].r = viewerImage.px[<<1, 0>>].g
    /\ viewerImage.px[<<1, 0>>].g = viewerImage.px[<<1, 0>>].b
    /\ viewerImage.px[<<1, 0>>].r \notin {0, 255}

(***************************************************************************)
(* transform() on its own: the working image is a copy of the original (as *)
(* at line 619) and one call transforms it.                                *)
(***************************************************************************)
\* most transform controls moved away from zero at once
MaxTransformEdits == 2

TransformEdits ==
    { <<"rotation", 90>>, <<"rotation", 180>>, <<"rotation", 270>>,
      <<"flipH", TRUE>>, <<"flipV", TRUE>>,
      <<"cropLeft", 1>>, <<"cropTop", 1>>, <<"cropWidth", 1>>,
      <<"cropHeight", 2>>,
      <<"cropLeftPercent", 50>>, <<"cropTopPercent", 34>>,
      <<"cropWidthPercent", 50>>, <<"cropHeightPercent", 100>> }

TransformSettings ==
    { Edited(E) : E \in EditSets(TransformEdits, MaxTransformEdits) }

\* the w x h image whose pixel tells its position
Chart(w, h, fmt) ==
    [w |-> w, h |-> h, fmt |-> fmt,
     px |-> [q \in Pos(w, h) |->
                Pixel(<<10 + 40 * q[1], 20 + 40 * q[2], 7>>, 255)]]

ChartImages ==
    { Chart(w, h, fmt) : w \in 1..MaxImg, h \in 1..MaxImg,
                         fmt \in {"RGB32", "ARGB32"} }

\* the resize machinery at rest, before any resizeImage() call
ResizeIdle ==
    /\ view = [w |-> 1, h |-> 1]
    /\ display = [w |-> 0, h |-> 0]
    /\ hbar = 0
    /\ vbar = 0
    /\ busy = FALSE
    /\ pc = "idle"
    /\ frame = NoFrame
    /\ nested = FALSE
    /\ maxActive = 0

InitTransform ==
    /\ Settings \in TransformSettings
    /\ mirrorLayout = "LayNone"
    /\ tempDisableResize = FALSE
    /\ origImage \in ChartImages
    /\ viewerImage = origImage
    /\ mirrorImage = NullImage
    /\ widgetImage = NullImage
    /\ ResizeIdle
    /\ stages = <<>>
    /\ hslRun = NoHsl

\* ImageViewer::transform()
Transform ==
    /\ stages = <<>>
    /\ viewerImage' = transform(viewerImage, Settings)
    /\ stages' = <<"transform">>
    /\ UNCHANGED <<Settings, mirrorLayout, tempDisableResize, origImage,
                   mirrorImage, widgetImage, resizeVars, hslRun>>

NextTransform == Transform \/ Reset

SpecTransform == InitTransform /\ [][NextTransform]_vars

Transformed == stages = <<"transform">>

NoCrop ==
    /\ Settings.cropLeft = 0 /\ Settings.cropTop = 0
    /\ Settings.cropWidth = 0 /\ Settings.cropHeight = 0
    /\ Settings.cropLeftPercent = 0 /\ Settings.cropTopPercent = 0
    /\ Settings.cropWidthPercent = 0 /\ Settings.cropHeightPercent = 0

NoTurn == Settings.rotation = 0 /\ ~Settings.flipH /\ ~Settings.flipV

\* C5: with all eight crop fields zero, rotation 0 and both flips off,
\* transform() leaves the working image unchanged: same width, same height,
\* same pixel at every position.
C5_TransformNoOp ==
    (Transformed /\ NoCrop /\ NoTurn) =>
        /\ viewerImage.w = origImage.w
        /\ viewerImage.h = origImage.h
        /\ \A q \in Pos(origImage.w, origImage.h) :
              viewerImage.px[q] = origImage.px[q]

\* transform() has run with nothing to do on a 3x2 image whose pixels all
\* differ, and the image is what it was
C5_Witness ==
    /\ Transformed /\ NoCrop /\ NoTurn
    /\ origImage = Chart(3, 2, "RGB32")
    /\ viewerImage = origImage

(***************************************************************************)
(* mirror() on its own.                                                    *)
(***************************************************************************)
MirrorLayouts == {"LayDual", "LayTriple", "LayQuad", "LayVDual"}

\* two opaque colours and a fully transparent one
MirrorPalette ==
    { Pixel(<<255, 0, 0>>, 255), Pixel(<<0, 0, 255>>, 255),
      Pixel(<<0, 255, 0>>, 0) }

MirrorImages ==
    UNION { { [w |-> z[1], h |-> z[2], fmt |-> fmt, px |-> f] :
                f \in [Pos(z[1], z[2]) ->
                         { p \in MirrorPalette : fmt = "ARGB32" \/ p.a = 255 }] } :
            z \in { y \in (1..MaxArea) \X (1..MaxArea) : y[1] * y[2] <= MaxArea },
            fmt \in {"RGB32", "ARGB32"} }

\* contents the uninitialised canvas memory may hold
JunkPixels == { ZeroPixel, [r |-> 205, g |-> 205, b |-> 205, a |-> 205] }

InitMirror ==
    /\ Settings = DefaultSettings
    /\ mirrorLayout \in MirrorLayouts
    /\ tempDisableResize = FALSE
    /\ origImage \in MirrorImages
    /\ viewerImage = origImage
    /\ mirrorImage = NullImage
    /\ widgetImage = NullImage
    /\ ResizeIdle
    /\ stages = <<>>
    /\ hslRun = NoHsl

\* ImageViewer::mirror()
Mirror ==
    /\ stages = <<>>
    /\ \E junk \in [mirrorUnpainted(viewerImage, mirrorLayout) -> JunkPixels] :
          /\ mirrorImage' = mirror(viewerImage, mirrorLayout, junk)
          /\ viewerImage' = mirrorImage'
    /\ stages' = <<"mirror">>
    /\ UNCHANGED <<Settings, mirrorLayout, tempDisableResize, origImage,
                   widgetImage, resizeVars, hslRun>>

NextMirror == Mirror \/ Reset

SpecMirror == InitMirror /\ [][NextMirror]_vars

Mirrored == stages = <<"mirror">>

\* C6: mirror() with layout Dual produces a canvas of width 2w and height h
\* whose pixel at (x,y) is the input pixel at (x,y) for x < w, and whose
\* pixel at (w+x,y) is the input pixel at (w-1-x,y).
C6_DualCanvas ==
    (Mirrored /\ mirrorLayout = "LayDual") =>
        /\ viewerImage.w = 2 * origImage.w
        /\ viewerImage.h = origImage.h
        /\ \A q \in Pos(origImage.w, origImage.h) :
              /\ viewerImage.px[q] = origImage.px[q]
              /\ viewerImage.px[<<origImage.w + q[1], q[2]>>]
                    = origImage.px[<<origImage.w - 1 - q[1], q[2]>>]

(***************************************************************************)
(* resizeImage() (lines 154-292) and the events that call it.  The call    *)
(* stands at "scroll" between setFixedSize (line 283), during which Qt may *)
(* deliver a resize or show event to the viewer, and the scroll bar        *)
(* update of lines 285-290.  imageWidget->imageSize() is the size of the   *)
(* image last handed to imageWidget->setImage.                             *)
(***************************************************************************)
\* lines 155-158
resizeGuard_Off(b) == FALSE

resizeGuard(b) == b

busyOnReturn_Kept(b) == b

\* line 291
busyOnReturn(b) == FALSE

\* QSize::isEmpty
isEmpty(sz) == sz.w <= 0 \/ sz.h <= 0

\* lines 154-284 of a call made with the viewer at size v, img in the image
\* widget, settings S
resizeImage(img, v, S, disableResize) ==
    LET imageSize == [w |-> img.w, h |-> img.h]
        hval      == barClamp(hbar, display.w, v.w)
        vval      == barClamp(vbar, display.h, v.h)
        size      == fitSize(imageSize, v, S, disableResize)
    IN  IF resizeGuard(busy) \/ isEmpty(imageSize)
        THEN UNCHANGED <<display, hbar, vbar, busy, pc, frame, maxActive>>
        ELSE /\ busy' = TRUE
             /\ frame' = [size      |-> size,
                          posNull   |-> /\ widgetPos(display.w, v.w, hval) = 0
                                        /\ widgetPos(display.h, v.h, vval) = 0,
                          positionX |-> <<hval, barMax(display.w, v.w)>>,
                          positionY |-> <<vval, barMax(display.h, v.h)>>]
             /\ display' = size
             /\ hbar' = barClamp(hval, size.w, v.w)
             /\ vbar' = barClamp(vval, size.h, v.h)
             /\ pc' = "scroll"
             /\ maxActive' = IF pc = "scroll" THEN 2 ELSE MAX(maxActive, 1)

Views == { [w |-> w, h |-> h] : w \in 1..MaxView, h \in 1..MaxView }

\* the sizes a resize event gives the viewer: every size while a small image
\* is shown, the smallest and the largest while the large one is (its scroll
\* bars take a new value with nearly every change of size)
EventViews ==
    IF widgetImage.w >= BigImg
    THEN { [w |-> 1, h |-> 1], [w |-> MaxView, h |-> MaxView] }
    ELSE Views

\* ImageViewer::showEvent
ShowEvent ==
    /\ pc = "idle"
    /\ resizeImage(widgetImage, view, Settings, tempDisableResize)
    /\ nested' = FALSE
    /\ UNCHANGED <<Settings, mirrorLayout, tempDisableResize, imageVars, view,
                   stages, hslRun>>

\* ImageViewer::resizeEvent, the viewer having taken the size v
ResizeEvent ==
    /\ pc = "idle"
    /\ \E v \in EventViews \ {view} :
          /\ view' = v
          /\ resizeImage(widgetImage, v, Settings, tempDisableResize)
    /\ nested' = FALSE
    /\ UNCHANGED <<Settings, mirrorLayout, tempDisableResize, imageVars,
                   stages, hslRun>>

\* a show event (v = view) or resize event delivered while a resizeImage()
\* call stands between lines 283 and 285
NestedEvent ==
    /\ pc = "scroll"
    /\ \E v \in EventViews :
          /\ view' = v
          /\ resizeImage(widgetImage, v, Settings, tempDisableResize)
    /\ nested' = TRUE
    /\ UNCHANGED <<Settings, mirrorLayout, tempDisableResize, imageVars,
                   stages, hslRun>>

\* lines 285-291
ResizeFinish ==
    /\ pc = "scroll"
    /\ LET hval == barClamp(hbar, display.w, view.w)
           vval == barClamp(vbar, display.h, view.h)
       IN  IF \/ frame.posNull
              \/ frame.size.w < view.w + CenterMargin
              \/ frame.size.h < view.h + CenterMargin
           THEN /\ hbar' = centerImage(hval, display.w, view.w)
                /\ vbar' = centerImage(vval, display.h, view.h)
           ELSE /\ hbar' = restoreBar(frame.positionX, display.w, view.w)
                /\ vbar' = restoreBar(frame.positionY, display.h, view.h)
    /\ busy' = busyOnReturn(busy)
    /\ pc' = "idle"
    /\ frame' = NoFrame
    /\ UNCHANGED <<Settings, mirrorLayout, tempDisableResize, imageVars, view,
                   display, nested, maxActive, stages, hslRun>>

(***************************************************************************)
(* The zoom-fit computation: one image, one viewport, one choice of        *)
(* policies and multiplier, and show events.                               *)
(***************************************************************************)
ZoomSettings ==
    { [DefaultSettings EXCEPT !.zoomInFlags = i, !.zoomOutFlags = o,
                              !.imageZoomFactorX2 = z] :
        i \in Policies, o \in Policies, z \in 1..MaxZoomH }

BlankImages ==
    { Uniform(w, h, "RGB32", Black) : w \in 1..MaxImg, h \in 1..MaxImg }

InitZoom ==
    /\ Settings \in ZoomSettings
    /\ mirrorLayout = "LayNone"
    /\ tempDisableResize \in BOOLEAN
    /\ origImage \in BlankImages
    /\ viewerImage = origImage
    /\ mirrorImage = NullImage
    /\ widgetImage = origImage
    /\ view \in Views
    /\ display = [w |-> 0, h |-> 0]
    /\ hbar = 0
    /\ vbar = 0
    /\ busy = FALSE
    /\ pc = "idle"
    /\ frame = NoFrame
    /\ nested = FALSE
    /\ maxActive = 0
    /\ stages = <<>>
    /\ hslRun = NoHsl

NextZoom == ShowEvent \/ ResizeFinish

SpecZoom == InitZoom /\ [][NextZoom]_vars

\* a resizeImage() call has set the display size
Resized == maxActive >= 1

imageSize == [w |-> widgetImage.w, h |-> widgetImage.h]

\* C3: with both policies Disable, resize not disabled and an image no
\* larger than the viewport in width and height, resizeImage sets the
\* display size to the image size with the multiplier applied exactly once.
C3_AppliedOnce ==
    (/\ Resized /\ ~tempDisableResize
     /\ Settings.zoomInFlags = "Disable" /\ Settings.zoomOutFlags = "Disable"
     /\ imageSize.w <= view.w /\ imageSize.h <= view.h)
    => display = scaleKeep(imageSize,
                           TruncDiv(imageSize.w * Settings.imageZoomFactorX2, 2),
                           TruncDiv(imageSize.h * Settings.imageZoomFactorX2, 2))

DispropRun ==
    /\ Resized /\ ~tempDisableResize
    /\ Settings.zoomInFlags = "Disprop" /\ Settings.zoomOutFlags = "Disprop"

\* C4 as stated: with both policies Disprop and resize not disabled, when
\* viewportWidth*imageHeight differs from viewportHeight*imageWidth the size
\* set has targetWidth*imageHeight different from targetHeight*imageWidth.
C4_NeverPreserves ==
    (DispropRun /\ view.w * imageSize.h # view.h * imageSize.w)
    => display.w * imageSize.h # display.h * imageSize.w

\* C4 amended: with both policies Disprop, resize not disabled and a
\* whole-number multiplier m >= 1, the size set is (m * viewportWidth,
\* m * viewportHeight); so when viewportWidth*imageHeight differs from
\* viewportHeight*imageWidth, targetWidth*imageHeight differs from
\* targetHeight*imageWidth.
C4_WholeMultiplier ==
    (DispropRun /\ Settings.imageZoomFactorX2 % 2 = 0)
    => LET m == Settings.imageZoomFactorX2 \div 2
       IN  /\ display = [w |-> m * view.w, h |-> m * view.h]
           /\ (view.w * imageSize.h # view.h * imageSize.w
               => display.w * imageSize.h # display.h * imageSize.w)

\* a 3x1 image in a 2x3 viewport has been stretched to 4x6 by Disprop
\* policies with multiplier 2
C4_Witness ==
    /\ DispropRun
    /\ Settings.imageZoomFactorX2 = 4
    /\ imageSize = [w |-> 3, h |-> 1]
    /\ view = [w |-> 2, h |-> 3]
    /\ display = [w |-> 4, h |-> 6]

(***************************************************************************)
(* Resize and show events, and events delivered during a resizeImage()     *)
(* call.                                                                   *)
(***************************************************************************)
ResizeSettings ==
    { [DefaultSettings EXCEPT !.zoomInFlags = f, !.zoomOutFlags = f,
                              !.imageZoomFactorX2 = z] :
        f \in {"Disable", "WidthAndHeight", "Disprop"}, z \in {2, MaxZoomH} }

\* the policies Disable with a multiplier that takes the large image past
\* the margin of line 285 in every viewer
BigSettings ==
    [DefaultSettings EXCEPT !.zoomInFlags = "Disable",
                            !.zoomOutFlags = "Disable",
                            !.imageZoomFactorX2 = BigZoomH]

InitResize ==
    /\ \/ /\ Settings \in ResizeSettings
          /\ origImage \in { NullImage, Uniform(MaxImg, 2, "RGB32", Black) }
       \/ /\ Settings = BigSettings
          /\ origImage = Uniform(BigImg, BigImg, "RGB32", Black)
    /\ mirrorLayout = "LayNone"
    /\ tempDisableResize = FALSE
    /\ viewerImage = origImage
    /\ mirrorImage = NullImage
    /\ widgetImage = origImage
    /\ ResizeIdle
    /\ stages = <<>>
    /\ hslRun = NoHsl

NextResize == ShowEvent \/ ResizeEvent \/ NestedEvent \/ ResizeFinish

SpecResize == InitResize /\ [][NextResize]_vars

\* C9: a resizeImage() call that begins while another is in progress (busy
\* set) returns without changing the display size, the scroll position or
\* the busy flag; at most one resizeImage() body is past the guard at a time.
C9_BusyGuard ==
    /\ [](maxActive <= 1)
    /\ [][(busy /\ pc = "scroll" /\ pc' = "scroll")
            => /\ display' = display
               /\ hbar' = hbar /\ vbar' = vbar
               /\ busy' = busy]_vars

\* a call has completed, scrolled to the centre of an image wider than the
\* viewer, after a second call was turned away
C9_Witness ==
    /\ nested /\ pc = "idle" /\ maxActive = 1
    /\ display.w > view.w /\ hbar > 0

(***************************************************************************)
(* The viewer: images are loaded and refreshed while the controls of the   *)
(* application edit Settings.  Files are readable still images, batch mode *)
(* is off and Settings::scaledWidth stays 0.                               *)
(***************************************************************************)
PipeEdits ==
    { <<f, b>> : f \in {"flipH", "keepTransform", "colorsActive"},
                 b \in BOOLEAN }
    \cup { <<"rotation", 0>>, <<"rotation", 90>> }

Files ==
    { Chart(2, 1, "RGB32"),
      Uniform(1, 2, "ARGB32", Pixel(<<0, 255, 0>>, 0)) }

Init ==
    /\ Settings = DefaultSettings
    /\ mirrorLayout \in {"LayNone", "LayDual"}
    /\ tempDisableResize = FALSE
    /\ origImage = NullImage
    /\ viewerImage = NullImage
    /\ mirrorImage = NullImage
    /\ widgetImage = NullImage
    /\ view \in { [w |-> 1, h |-> 1], [w |-> MaxView, h |-> MaxView] }
    /\ display = [w |-> 0, h |-> 0]
    /\ hbar = 0
    /\ vbar = 0
    /\ busy = FALSE
    /\ pc = "idle"
    /\ frame = NoFrame
    /\ nested = FALSE
    /\ maxActive = 0
    /\ stages = <<>>
    /\ hslRun = NoHsl

\* a control of the application writes one of the Settings
Edit ==
    /\ pc = "idle"
    /\ \E e \in PipeEdits :
          /\ Settings[e[1]] # e[2]
          /\ Settings' = [Settings EXCEPT ![e[1]] = e[2]]
    /\ stages' = <<>>
    /\ UNCHANGED <<mirrorLayout, tempDisableResize, imageVars, resizeVars,
                   hslRun>>

\* lines 679-683 and 689-690 of reload()
resetTransform(S) ==
    IF S.keepTransform THEN S
    ELSE [S EXCEPT !.cropLeftPercent = 0, !.cropTopPercent = 0,
                   !.cropWidthPercent = 0, !.cropHeightPercent = 0,
                   !.rotation = 0, !.flipH = FALSE, !.flipV = FALSE,
                   !.cropLeft = 0, !.cropTop = 0,
                   !.cropWidth = 0, !.cropHeight = 0]

\* lines 624-626 and 738-740
grade(img, S) ==
    IF S.colorsActive \/ S.keepTransform THEN colorize(img, S) ELSE img

\* what the canvas of mirror() may hold before img is painted on it
junkFor(img) ==
    IF mirrorLayout # "LayNone" /\ img.w # 0
    THEN [mirrorUnpainted(img, mirrorLayout) -> JunkPixels]
    ELSE {<<>>}

\* lines 628-630 and 741-743
composite(img, junk) ==
    IF mirrorLayout # "LayNone" THEN mirror(img, mirrorLayout, junk) ELSE img

\* the calls made after the working image is set, in order
laterStages(S) ==
    (IF S.colorsActive \/ S.keepTransform THEN <<"colorize">> ELSE <<>>)
    \o (IF mirrorLayout # "LayNone" THEN <<"mirror">> ELSE <<>>)
    \o <<"resizeImage">>

\* ImageViewer::loadImage (lines 789-800) and the reload() it calls, up to
\* line 283 of the resizeImage() call of line 751
LoadImage ==
    /\ pc = "idle"
    /\ \E file \in Files :
       \E S \in {resetTransform(
                    [Settings EXCEPT !.imageZoomFactorX2 =
                        IF Settings.keepZoomFactor THEN @ ELSE 2])} :
       \E graded \in {grade(file, S)} :
       \E junk \in junkFor(graded) :
       \E out \in {composite(graded, junk)} :
          /\ Settings' = S
          /\ tempDisableResize' = FALSE
          /\ origImage' = file
          /\ viewerImage' = out
          /\ mirrorImage' = IF mirrorLayout # "LayNone" THEN out
                            ELSE mirrorImage
          /\ widgetImage' = out
          /\ resizeImage(out, view, S, FALSE)
          /\ stages' = laterStages(S)
    /\ nested' = FALSE
    /\ UNCHANGED <<mirrorLayout, view, hslRun>>

\* ImageViewer::refresh (lines 610-634), up to line 283 of the resizeImage()
\* call of line 633
Refresh ==
    /\ pc = "idle"
    /\ \E turned \in {transform(origImage, Settings)} :
       \E graded \in {grade(turned, Settings)} :
       \E junk \in junkFor(graded) :
       \E out \in {composite(graded, junk)} :
          /\ viewerImage' = out
          /\ mirrorImage' = IF mirrorLayout # "LayNone" THEN out
                            ELSE mirrorImage
          /\ widgetImage' = out
          /\ resizeImage(out, view, Settings, tempDisableResize)
    /\ stages' = <<"transform">> \o laterStages(Settings)
    /\ nested' = FALSE
    /\ UNCHANGED <<Settings, mirrorLayout, tempDisableResize, origImage, view,
                   hslRun>>

Next == LoadImage \/ Refresh \/ Edit \/ ResizeFinish

Spec == Init /\ [][Next]_vars

\* C10: on every pipeline run, after a load as on refresh, the stages run
\* in the order transform, colorize if enabled, mirror if a layout is
\* selected, then the zoom-fit of resizeImage; transform is never skipped.
C10_StageOrder ==
    stages # <<>> => stages = <<"transform">> \o laterStages(Settings)

(***************************************************************************)
(* Further properties of transform().                                      *)
(***************************************************************************)
\* C11: when the crop settings resolve to a rectangle of non-positive width
\* or height, the crop is rejected before the extraction: transform() never
\* replaces the working image with an empty or invalid buffer.
C11_NoEmptyCrop ==
    Transformed => /\ viewerImage.w > 0 /\ viewerImage.h > 0
                   /\ viewerImage.fmt # "Invalid"

(***************************************************************************)
(* Further properties of colorize().                                       *)
(***************************************************************************)
InByte(v) == v \in 0..255

ByteRgb(c) == InByte(c.r) /\ InByte(c.g) /\ InByte(c.b)

\* C12: for every pixel and every setting, each channel value lies in
\* [0,255] after negate, after gain, after the brightness lookup, after the
\* contrast lookup, after saturation/lightness scaling, and each output of
\* hslToRgb does before it is stored into an 8-bit channel.
C12_StagesClamped ==
    Graded =>
        \A q \in Pos(origImage.w, origImage.h) :
            LET p   == origImage.px[q]
                n   == negateStage(p, Settings)
                g   == gainStage(n, Settings)
                b   == brightStage(g, Settings)
                c   == contrastStage(b, Settings)
                hsl == hslStage(p, Settings)
            IN  /\ ByteRgb(n)
                /\ ByteRgb(g)
                /\ ByteRgb(b)
                /\ ByteRgb(c)
                /\ InByte(hsl.s) /\ InByte(hsl.l)
                /\ ByteRgb(hslToRgbRaw(hsl.h, hsl.s, hsl.l))
                /\ ByteRgb(viewerImage.px[q])

\* a gain of +100% on red 200 has been clamped from 400 to 255
C12_Witness ==
    /\ Graded
    /\ Settings.redVal = 100
    /\ origImage.w = 1
    /\ origImage.px[<<0, 0>>] = Pixel(<<200, 130, 20>>, 255)
    /\ TruncDiv(200 * (Settings.redVal + 100), 100) = 400
    /\ gainStage(negateStage(origImage.px[<<0, 0>>], Settings), Settings).r = 255

\* the value lines 591-595 compute for the pixel p
gradedRgb(p) ==
    hslToRgb(hslStage(p, Settings).h, hslStage(p, Settings).s,
             hslStage(p, Settings).l)

\* C13: for each of R, G, B, when the channel's enable flag is off
\* colorize() writes back the value the channel had before the negate step,
\* whatever the other settings are; when it is on, the graded value.
C13_ChannelMask ==
    Graded =>
        \A q \in Pos(origImage.w, origImage.h) :
            LET in  == origImage.px[q]
                out == viewerImage.px[q]
            IN  /\ out.r = IF Settings.hueRedChannel
                           THEN gradedRgb(in).r ELSE in.r
                /\ out.g = IF Settings.hueGreenChannel
                           THEN gradedRgb(in).g ELSE in.g
                /\ out.b = IF Settings.hueBlueChannel
                           THEN gradedRgb(in).b ELSE in.b

\* with the red channel disabled and negate-R on, red is written back as it
\* was read, not as negated, while green is graded
C13_Witness ==
    /\ Graded
    /\ ~Settings.hueRedChannel /\ Settings.rNegateEnabled
    /\ origImage.w = 1
    /\ origImage.px[<<0, 0>>] = Pixel(<<200, 130, 20>>, 255)
    /\ negateStage(origImage.px[<<0, 0>>], Settings).r = 55
    /\ viewerImage.px[<<0, 0>>].r = 200
    /\ viewerImage.px[<<0, 0>>].g = gradedRgb(origImage.px[<<0, 0>>]).g

\* C14: colorize() keeps the image's width, height, alpha presence and every
\* pixel's alpha, for every input pixel format, the formats colorize()
\* converts included.
C14_KeepsAlpha ==
    Graded =>
        /\ viewerImage.w = origImage.w /\ viewerImage.h = origImage.h
        /\ hasAlphaChannel(viewerImage) = hasAlphaChannel(origImage)
        /\ \A q \in Pos(origImage.w, origImage.h) :
            viewerImage.px[q].a = origImage.px[q].a

(* Further properties of resizeImage(). *)
\* C15: when tempDisableResize is set, resizeImage sets the display size to
\* exactly the image size, whatever the zoom policies, the multiplier and
\* the viewport size are.
C15_DisableResize ==
    (Resized /\ tempDisableResize) => display = imageSize

\* resize is disabled under policies and a multiplier that would otherwise
\* stretch the 3x1 image to 4x6
C15_Witness ==
    /\ Resized /\ tempDisableResize
    /\ Settings.zoomInFlags = "Disprop" /\ Settings.zoomOutFlags = "Disprop"
    /\ Settings.imageZoomFactorX2 = 4
    /\ imageSize = [w |-> 3, h |-> 1]
    /\ view = [w |-> 2, h |-> 3]
    /\ display = [w |-> 3, h |-> 1]
    /\ fitSize(imageSize, view, Settings, FALSE) = [w |-> 4, h |-> 6]

(* The crop rectangle of transform(). *)
\* the original image as it is after the rotation and the flip
Turned ==
    LET rot == IF Settings.rotation # 0
               THEN rotated(origImage, Settings.rotation) ELSE origImage
    IN  IF Settings.flipH \/ Settings.flipV
        THEN mirrored(rot, Settings.flipH, Settings.flipV) ELSE rot

CropLeft ==
    Settings.cropLeft + TruncDiv(Turned.w * Settings.cropLeftPercent, 100)

CropTop ==
    Settings.cropTop + TruncDiv(Turned.h * Settings.cropTopPercent, 100)

CropWidth ==
    Turned.w - Settings.cropWidth
             - TruncDiv(Turned.w * Settings.cropWidthPercent, 100) - CropLeft

CropHeight ==
    Turned.h - Settings.cropHeight
             - TruncDiv(Turned.h * Settings.cropHeightPercent, 100) - CropTop

\* C16: with W and H the size of the working image after rotation and flip,
\* transform() extracts the rectangle left = absLeft + W*percentLeft/100,
\* top = absTop + H*percentTop/100, width = W - absWidthTrim -
\* W*percentWidthTrim/100 - left, height = H - absHeightTrim -
\* H*percentHeightTrim/100 - top (integer division), whether only percentages
\* are set or an absolute field is non-zero; a rectangle without area gives
\* an image without pixels.
C16_CropRectangle ==
    Transformed =>
        IF CropWidth > 0 /\ CropHeight > 0
        THEN /\ viewerImage.w = CropWidth
             /\ viewerImage.h = CropHeight
             /\ \A q \in Pos(CropWidth, CropHeight) :
                    viewerImage.px[q] =
                        Turned.px[<<CropLeft + q[1], CropTop + q[2]>>]
        ELSE viewerImage.w = 0 /\ viewerImage.h = 0

\* an absolute and a percentage left inset add up on a 3x2 image: the
\* rectangle starts at column 1 + 3*50/100 = 2 and is 1 wide
C16_Witness ==
    /\ Transformed
    /\ Settings.cropLeft = 1 /\ Settings.cropLeftPercent = 50
    /\ origImage = Chart(3, 2, "RGB32")
    /\ CropLeft = 2 /\ CropTop = 0 /\ CropWidth = 1 /\ CropHeight = 2
    /\ viewerImage.w = 1 /\ viewerImage.h = 2
    /\ viewerImage.px[<<0, 0>>] = origImage.px[<<2, 0>>]
    /\ viewerImage.px[<<0, 1>>] = origImage.px[<<2, 1>>]

(* The hue update of colorize(). *)
\* C17: in relative (non-colorize) mode the hue colorize() hands to the
\* HSL-to-RGB conversion is the pixel's hue plus the configured hue, not
\* reduced modulo 256, so that the conversion's single fold of +255 or -255
\* is the only wraparound and decides the colours written.
C17_HueFold ==
    (Graded /\ ~Settings.colorizeEnabled) =>
        \A q \in Pos(origImage.w, origImage.h) :
            LET c   == preHsl(origImage.px[q], Settings)
                sum == rgbToHsl(c.r, c.g, c.b).h + Settings.hueVal
                hsl == hslStage(origImage.px[q], Settings)
                out == viewerImage.px[q]
            IN  /\ hsl.h = sum
                /\ AllChannels =>
                      [r |-> out.r, g |-> out.g, b |-> out.b]
                          = hslToRgb(sum, hsl.s, hsl.l)

(* The zoom policies of resizeImage(). *)
\* the size the zoom-in switch leaves
AfterZoomIn == zoomInSize(imageSize, view, Settings)

\* the condition the zoom-out switch tests on that size (lines 233, 241, 249
\* and 259; the Disprop case of lines 268-277 scales whatever the size is)
ZoomOutTriggered ==
    CASE Settings.zoomOutFlags \in {"Disable", "WidthAndHeight"} ->
            AfterZoomIn.w >= view.w \/ AfterZoomIn.h >= view.h
      [] Settings.zoomOutFlags = "Width" -> AfterZoomIn.w >= view.w
      [] Settings.zoomOutFlags = "Height" -> AfterZoomIn.h >= view.h
      [] Settings.zoomOutFlags = "Disprop" -> TRUE

\* C18: with zoom-in policy Width (FitWidth), resize not disabled, zoom-out
\* not triggered and an image no wider than the viewport, resizeImage sets
\* the display width to the viewport width times the multiplier, truncated,
\* and the display height to that width divided by the image's width/height
\* ratio (to within the rounding of the quotient).
C18_FitWidth ==
    (/\ Resized /\ ~tempDisableResize
     /\ Settings.zoomInFlags = "Width"
     /\ imageSize.w <= view.w
     /\ ~ZoomOutTriggered)
    => /\ display.w = TruncDiv(view.w * Settings.imageZoomFactorX2, 2)
       /\ Abs(display.h * imageSize.w - display.w * imageSize.h) < imageSize.w

\* the image fits the viewport on the axis or axes of the zoom-in policy
\* (for Disprop: on either axis)
ZoomInFits ==
    CASE Settings.zoomInFlags \in {"Disable", "WidthAndHeight"} ->
            imageSize.w <= view.w /\ imageSize.h <= view.h
      [] Settings.zoomInFlags = "Width" -> imageSize.w <= view.w
      [] Settings.zoomInFlags = "Height" -> imageSize.h <= view.h
      [] Settings.zoomInFlags = "Disprop" ->
            imageSize.w <= view.w \/ imageSize.h <= view.h

\* the size left by the zoom-in policy reaches or exceeds the viewport on
\* the axis or axes of the zoom-out policy (for Disprop: on either axis)
ZoomOutExceeds ==
    CASE Settings.zoomOutFlags \in {"Disable", "WidthAndHeight", "Disprop"} ->
            AfterZoomIn.w >= view.w \/ AfterZoomIn.h >= view.h
      [] Settings.zoomOutFlags = "Width" -> AfterZoomIn.w >= view.w
      [] Settings.zoomOutFlags = "Height" -> AfterZoomIn.h >= view.h

\* C19: for each of the five policies, the zoom-in policy changes the size
\* only when the image fits the viewport on the policy's axis or axes, and
\* the zoom-out policy changes the size only when the size exceeds the
\* viewport on the policy's axis; a policy whose condition does not hold
\* leaves the size as it is, the multiplier not applied.
C19_PolicyGuards ==
    (Resized /\ ~tempDisableResize) =>
        /\ ~ZoomInFits => AfterZoomIn = imageSize
        /\ ~ZoomOutExceeds => display = AfterZoomIn

(* The Triple layout of mirror(). *)
\* C20: for every working image of width w and height h, mirror() with
\* layout Triple produces a canvas of width 3w and height h in which tile 0
\* (columns 0..w-1) is the image, tile 1 (columns w..2w-1) is its horizontal
\* mirror and tile 2 (columns 2w..3w-1) is pixel-identical to tile 0.
C20_TripleCanvas ==
    (Mirrored /\ mirrorLayout = "LayTriple") =>
        /\ viewerImage.w = 3 * origImage.w
        /\ viewerImage.h = origImage.h
        /\ \A q \in Pos(origImage.w, origImage.h) :
              /\ viewerImage.px[q] = origImage.px[q]
              /\ viewerImage.px[<<origImage.w + q[1], q[2]>>]
                    = origImage.px[<<origImage.w - 1 - q[1], q[2]>>]
              /\ viewerImage.px[<<2 * origImage.w + q[1], q[2]>>]
                    = viewerImage.px[q]

(* The busy flag of resizeImage() over whole calls. *)
\* C21: every resizeImage() call that sets the busy flag clears it before it
\* returns, on every path; so the flag is false whenever no call is
\* executing, and a resize or show event arriving after a call has finished
\* is processed (the display size is computed anew), not turned away.
C21_BusyCleared ==
    /\ [](pc = "idle" => ~busy)
    /\ [][(pc = "scroll" /\ pc' = "idle") => (busy /\ ~busy')]_vars
    /\ [][(pc = "idle" /\ ~isEmpty(imageSize))
            => /\ pc' = "scroll" /\ busy'
               /\ display' = fitSize(imageSize, view', Settings,
                                     tempDisableResize)]_vars

\* a call is under way after an earlier one finished with the image scrolled,
\* and it will leave by the branch of lines 288-289
C21_Witness ==
    /\ pc = "scroll" /\ busy /\ ~nested
    /\ frame.positionX[1] > 0
    /\ ~frame.posNull
    /\ frame.size.w >= view.w + CenterMargin
    /\ frame.size.h >= view.h + CenterMargin
    /\ display = frame.size

(* refresh() called again. *)
\* the last pipeline run was a refresh() and no setting was written since
Refreshed == stages # <<>> /\ Head(stages) = "transform"

\* C22: refresh() never modifies the original image and always rebuilds the
\* working image from it, so refresh is idempotent: with unchanged settings
\* a refresh() that follows a refresh() leaves the same working image,
\* dimensions and pixels, as the first one did.
C22_RefreshIdempotent ==
    [][(pc = "idle" /\ Refreshed')
         => /\ origImage' = origImage
            /\ Refreshed => viewerImage' = viewerImage]_vars

=============================================================================
